---- MODULE Spec2Model ----
(***************************************************************************)
(* Batched migration pageseeker_response -> pageseeker_response_opensearch *)
(*                                                                         *)
(* Two sibling programs are modelled, selected by `variant`:               *)
(*   "overwrite"  src/migrate_records.js : upsert every fetched row,       *)
(*                skip-and-advance on a fetch error, abort above 10 errors *)
(*   "prefilter"  src/unnamed/part_000   : upsert only rows not yet in the *)
(*                destination, retry-in-place on a transient error,        *)
(*                upsertWithRetry with MAX_RETRIES attempts                *)
(*                                                                         *)
(* One action is one continuation of main(): a datastore call (or sleep)   *)
(* returns with some outcome and the code runs up to its next await.       *)
(* `pc` names the call main() is waiting for.  A call site yields the      *)
(* outcomes the code at that site distinguishes: a value, an error in the  *)
(* result, and (where the code has a try/catch) a thrown error.            *)
(***************************************************************************)
EXTENDS Integers, Sequences, FiniteSets

\* ------------------------------------------------------------------ bounds
\* Source ids are drawn from 1..MaxId (unique positive integer keys).
MaxId == 3
\* Page size.  The programs use 1000 (migrate_records.js:7, part_000:7); the
\* model scales it down so that a table of MaxId rows spans several pages.
BATCH_SIZE == 2
\* Cap on the number of page fetches of one run.  The prefilter variant
\* retries a transient error without limit; the overwrite variant never
\* reaches the cap (at most MaxErrors + MaxId + 1 fetches).
MaxFetchCalls == 14
\* Longest text of a numeric-as-text source field given to transformRow.
MaxTextLen == 2

\* ------------------------------------------------------- program constants
MAX_RETRIES == 3
MaxErrors == 10

Ids == 1..MaxId
Variants == {"overwrite", "prefilter"}

\* error.message of a failed call, by the substring the code looks for
ErrorMessages == {"terminated", "timeout", "connection", "other"}

NoRow == [present |-> FALSE]
\* a destination row that was there before the run (already indexed)
OldRow == [present |-> TRUE, opensearch_sync |-> TRUE, origin |-> "before"]

VARIABLES
    variant,         \* which program runs
    run,             \* 1: first run of the program, 2: the run after it
    source,          \* ids of pageseeker_response (static)
    dest,            \* pageseeker_response_opensearch: id -> row
    dest0,           \* dest at process start
    pc,              \* the call main() awaits
    lastId, totalProcessed, totalUpserted, totalErrors,
    rows,            \* ids of the page fetched last (of the current iteration)
    newRecords,      \* ids of the records handed to upsert
    attempt,         \* upsertWithRetry: attempt number
    sleeps,          \* upsertWithRetry: RETRY_DELAY waits of the current call
    retryResult,     \* outcome of the write of the current batch
    exitCode,        \* process exit code, -1 while running
    endedBy,         \* why the loop / process ended
    fetchCalls, fetchFails, upsertCalls,
    existFailed,     \* some existence query of the run returned an error or threw
    abandoned,       \* the previous page was dropped by a transient existence-check error
    cursorWrites,    \* number of assignments to lastId
    timesProcessed,  \* id -> number of processed pages containing it
    lastMessage,     \* error.message of the error main() is handling, else "none"
    row,             \* transformRow: the source row given
    record           \* transformRow: the record returned

vars == <<variant, run, source, dest, dest0, pc, lastId, totalProcessed,
          totalUpserted, totalErrors, rows, newRecords, attempt, sleeps,
          retryResult, exitCode, endedBy, fetchCalls, fetchFails, existFailed,
          upsertCalls, abandoned, cursorWrites, timesProcessed, lastMessage, row, record>>

\* ----------------------------------------------------------------- helpers
Min(a, b) == IF a < b THEN a ELSE b
Last(s) == s[Len(s)]
Range(s) == {s[i] : i \in 1..Len(s)}

RECURSIVE Ascending(_)
Ascending(S) ==
    IF S = {} THEN <<>>
    ELSE LET m == CHOOSE x \in S : \A y \in S : x <= y
         IN  <<m>> \o Ascending(S \ {m})

Limit(s, n) == SubSeq(s, 1, Min(n, Len(s)))


\* ------------------------------------------------------------ Batch Fetcher
\* The id filter of the page request.  migrate_records.js always sends
\* .gt('id', lastId); part_000 sends it only when lastId > 0.
CursorFilterGte(v, cursor, id) ==
    IF v = "prefilter" /\ ~(cursor > 0) THEN TRUE ELSE id >= cursor
CursorFilter(v, cursor, id) ==
    IF v = "prefilter" /\ ~(cursor > 0) THEN TRUE ELSE id > cursor

\* .order('id', {ascending: true}).limit(BATCH_SIZE) over the filtered rows
FetchPageShort(v, cursor) ==
    Limit(Ascending({id \in source : CursorFilter(v, cursor, id)}), BATCH_SIZE - 1)
FetchPage(v, cursor) ==
    Limit(Ascending({id \in source : CursorFilter(v, cursor, id)}), BATCH_SIZE)

\* lastId = rows[rows.length - 1].id
NextCursorFirst(page) == page[1] - 1
NextCursor(page) == Last(page)

\* lastId += BATCH_SIZE
SkipCursorOne(cursor) == cursor + 1
SkipCursor(cursor) == cursor + BATCH_SIZE

\* part_000, transient error: sleep(2000); continue -- lastId is not touched
RetryCursorSkip(cursor) == cursor + BATCH_SIZE
RetryCursor(cursor) == cursor

\* if (totalErrors > 10) break
TooManyErrorsNever(errors) == FALSE
TooManyErrorsLate(errors) == errors > MaxErrors + 1
TooManyErrors(errors) == errors > MaxErrors

\* error.message && (includes('terminated') || includes('timeout') || includes('connection'))
IsTransientNoTimeout(message) == message \in {"terminated", "connection"}
IsTransient(message) == message \in {"terminated", "timeout", "connection"}

\* ------------------------------------------------------------ Upsert Driver
\* transformRow keeps id and sets opensearch_sync: false
TransformedRow == [present |-> TRUE, opensearch_sync |-> FALSE, origin |-> "migrated"]

\* .upsert(records, {onConflict: 'id'}): insert if absent, full replace if present
UpsertIgnoreDuplicates(d, records) ==
    [id \in Ids |-> IF id \in Range(records) /\ ~d[id].present THEN TransformedRow
                                                                ELSE d[id]]
Upsert(d, records) ==
    [id \in Ids |-> IF id \in Range(records) THEN TransformedRow ELSE d[id]]

\* existingIds = new Set(existingRecords?.map(r => r.id) || []), where
\* existingRecords = result.data: the matching ids, or null when the result
\* carries an error (result.error is not looked at)
ExistingIds(hasData, page) ==
    IF hasData THEN {id \in Range(page) : dest[id].present} ELSE {}

\* newRecords = transformed.filter(record => !existingIds.has(record.id))
NewRecords(page, existing) == SelectSeq(page, LAMBDA id : id \notin existing)

\* One pass of the body of upsertWithRetry's for loop: what follows an attempt
\* with the given outcome ("ok", "error" in the result, "throw").
RetryStepOffByOne(att, outcome) ==
    IF outcome = "ok" THEN "success"
    ELSE IF outcome = "error"
         THEN IF att <= MAX_RETRIES THEN "sleep" ELSE "failure"
         ELSE IF att = MAX_RETRIES THEN "failure" ELSE "sleep"
RetryStep(att, outcome) ==
    IF outcome = "ok" THEN "success"
    ELSE IF outcome = "error"
         THEN IF att < MAX_RETRIES
              THEN "sleep"                   \* await sleep(RETRY_DELAY); continue
              ELSE "failure"                 \* throw error, caught with attempt === maxRetries
         ELSE IF att = MAX_RETRIES THEN "failure" ELSE "sleep"

\* if (upsertErr) totalErrors++ else totalUpserted += records.length
ErrorsAfterWriteNone(result, errors) == errors
ErrorsAfterWrite(result, errors) ==
    IF result = "failure" THEN errors + 1 ELSE errors
UpsertedAfterWriteAlways(result, upserted, n) == upserted + n
UpsertedAfterWrite(result, upserted, n) ==
    IF result = "failure" THEN upserted ELSE upserted + n

\* if (totalErrors > 0) process.exit(1) ... process.exit(0)
ExitCodeOfZero(errors) == 0
ExitCodeOf(errors) == IF errors > 0 THEN 1 ELSE 0

CountProcessed(page) ==
    [id \in Ids |-> IF id \in Range(page) THEN timesProcessed[id] + 1
                                          ELSE timesProcessed[id]]

\* ---------------------------------------------------------- Row Transformer
\* JavaScript values of the numeric-as-text fields and of their coercion
Null == [kind |-> "null", val |-> 0, chars |-> <<>>]
NaN == [kind |-> "NaN", val |-> 0, chars |-> <<>>]
Num(n) == [kind |-> "number", val |-> n, chars |-> <<>>]
Str(s) == [kind |-> "string", val |-> 0, chars |-> s]

Chars == {"0", "1", "-", "+", " ", "x"}
Digits == {"0", "1"}
DigitVal(c) == IF c = "1" THEN 1 ELSE 0

\* ToBoolean: null, NaN, 0 and the empty string are falsy
Truthy(v) ==
    CASE v.kind = "null" -> FALSE
      [] v.kind = "NaN" -> FALSE
      [] v.kind = "number" -> v.val # 0
      [] v.kind = "string" -> Len(v.chars) > 0

RECURSIVE TrimStart(_)
TrimStart(s) == IF Len(s) > 0 /\ s[1] = " " THEN TrimStart(Tail(s)) ELSE s

RECURSIVE DigitPrefix(_)
DigitPrefix(s) ==
    IF Len(s) > 0 /\ s[1] \in Digits THEN <<s[1]>> \o DigitPrefix(Tail(s)) ELSE <<>>

RECURSIVE Decimal(_)
Decimal(s) ==
    IF Len(s) = 0 THEN 0 ELSE 10 * Decimal(SubSeq(s, 1, Len(s) - 1)) + DigitVal(s[Len(s)])

\* parseInt(string, 10): leading white space skipped, an optional sign, then
\* the longest run of digits; NaN when there is no digit
ParseInt(s) ==
    LET t == TrimStart(s)
        signed == Len(t) > 0 /\ t[1] \in {"-", "+"}
        sign == IF Len(t) > 0 /\ t[1] = "-" THEN -1 ELSE 1
        digits == DigitPrefix(IF signed THEN Tail(t) ELSE t)
    IN  IF Len(digits) = 0 THEN NaN ELSE Num(sign * Decimal(digits))

\* x || null
OrNull(v) == IF Truthy(v) THEN v ELSE Null

\* row.f ? parseInt(row.f, 10) || null : null
CoerceInt(v) == IF Truthy(v) THEN OrNull(ParseInt(v.chars)) ELSE Null

IntFields == {"ad_id", "ad_risk_level", "request_id"}

\* transformRow, for the id, the three integer fields and opensearch_sync
transformRow(r) ==
    [id |-> r.id,
     ad_id |-> CoerceInt(r.ad_id),
     ad_risk_level |-> CoerceInt(r.ad_risk_level),
     request_id |-> CoerceInt(r.request_id),
     opensearch_sync |-> FALSE]

NoSourceRow == [id |-> 0, ad_id |-> Null, ad_risk_level |-> Null, request_id |-> Null]
NoRecord == [id |-> 0, ad_id |-> Null, ad_risk_level |-> Null, request_id |-> Null,
             opensearch_sync |-> TRUE]

\* -------------------------------------------------------------------- Init
Init ==
    /\ variant \in Variants
    /\ run = 1
    /\ source \in SUBSET Ids
    /\ dest \in [Ids -> {NoRow, OldRow}]
    /\ dest0 = dest
    /\ pc = "count"
    /\ lastId = 0
    /\ totalProcessed = 0
    /\ totalUpserted = 0
    /\ totalErrors = 0
    /\ rows = <<>>
    /\ newRecords = <<>>
    /\ attempt = 0
    /\ sleeps = 0
    /\ retryResult = "none"
    /\ exitCode = -1
    /\ endedBy = "running"
    /\ fetchCalls = 0
    /\ fetchFails = 0
    /\ existFailed = FALSE
    /\ upsertCalls = 0
    /\ abandoned = FALSE
    /\ cursorWrites = 0
    /\ timesProcessed = [id \in Ids |-> 0]
    /\ lastMessage = "none"
    /\ row = NoSourceRow
    /\ record = NoRecord

\* what no step of the loop changes, but the one handling an error message
runVars == <<variant, run, source, dest0, lastMessage, row, record>>
counters == <<totalProcessed, totalUpserted, totalErrors>>
retryVars == <<attempt, sleeps, retryResult>>
pageVars == <<rows, newRecords, abandoned>>
callCounts == <<fetchCalls, fetchFails, existFailed, upsertCalls>>

\* process.exit(1) out of the loop
CrashContinues(why) ==
    /\ pc' = "fetch"
    /\ exitCode' = exitCode
    /\ endedBy' = why
Crash(why) ==
    /\ pc' = "exited"
    /\ exitCode' = 1
    /\ endedBy' = why

\* ------------------------------------------------------------ count phase
\* the source count returns without error; the destination count is only logged
CountOk ==
    /\ pc = "count"
    /\ pc' = "fetch"
    /\ UNCHANGED <<runVars, dest, lastId, counters, pageVars, retryVars, exitCode,
                   endedBy, callCounts, cursorWrites, timesProcessed>>

\* if (countErr) process.exit(1)
CountError ==
    /\ pc = "count"
    /\ Crash("count_error")
    /\ UNCHANGED <<runVars, dest, lastId, counters, pageVars, retryVars,
                   callCounts, cursorWrites, timesProcessed>>

\* ------------------------------------------------------------------ fetch
\* the page request returns no rows: break
FetchEmpty ==
    /\ pc = "fetch"
    /\ fetchCalls < MaxFetchCalls
    /\ FetchPage(variant, lastId) = <<>>
    /\ fetchCalls' = fetchCalls + 1
    /\ pc' = "summary"
    /\ endedBy' = "empty"
    /\ UNCHANGED <<runVars, dest, lastId, counters, pageVars, retryVars, exitCode,
                   fetchFails, existFailed, upsertCalls, cursorWrites, timesProcessed>>

\* migrate_records.js: a page arrives, is transformed and handed to upsert
FetchPageOverwrite ==
    /\ pc = "fetch"
    /\ variant = "overwrite"
    /\ fetchCalls < MaxFetchCalls
    /\ FetchPage(variant, lastId) # <<>>
    /\ fetchCalls' = fetchCalls + 1
    /\ rows' = FetchPage(variant, lastId)
    /\ newRecords' = rows'
    /\ abandoned' = FALSE
    /\ retryResult' = "none"
    /\ pc' = "upsert"
    /\ UNCHANGED <<runVars, dest, lastId, counters, attempt, sleeps, exitCode, endedBy,
                   fetchFails, existFailed, upsertCalls, cursorWrites, timesProcessed>>

\* migrate_records.js: if (fetchErr) { totalErrors++; lastId += BATCH_SIZE; ... }
FetchErrorSkip ==
    /\ pc = "fetch"
    /\ variant = "overwrite"
    /\ fetchCalls < MaxFetchCalls
    /\ fetchCalls' = fetchCalls + 1
    /\ fetchFails' = fetchFails + 1
    /\ totalErrors' = totalErrors + 1
    /\ lastId' = SkipCursor(lastId)
    /\ cursorWrites' = cursorWrites + 1
    /\ IF TooManyErrors(totalErrors')
       THEN pc' = "summary" /\ endedBy' = "threshold"
       ELSE pc' = "fetch" /\ endedBy' = endedBy
    /\ UNCHANGED <<runVars, dest, totalProcessed, totalUpserted, pageVars, retryVars,
                   exitCode, existFailed, upsertCalls, timesProcessed>>

\* part_000: a page arrives and the existence query is sent
FetchPagePrefilter ==
    /\ pc = "fetch"
    /\ variant = "prefilter"
    /\ fetchCalls < MaxFetchCalls
    /\ FetchPage(variant, lastId) # <<>>
    /\ fetchCalls' = fetchCalls + 1
    /\ rows' = FetchPage(variant, lastId)
    /\ abandoned' = FALSE
    /\ pc' = "exists"
    /\ UNCHANGED <<runVars, dest, lastId, counters, newRecords, retryVars, exitCode,
                   endedBy, fetchFails, existFailed, upsertCalls, cursorWrites,
                   timesProcessed>>

\* part_000: if (error) { transient ? sleep(2000), continue : process.exit(1) }
FetchErrorRetry ==
    /\ pc = "fetch"
    /\ variant = "prefilter"
    /\ fetchCalls < MaxFetchCalls
    /\ fetchCalls' = fetchCalls + 1
    /\ fetchFails' = fetchFails + 1
    /\ \E message \in ErrorMessages :
          /\ lastMessage' = message
          /\ IF IsTransient(message)
             THEN /\ pc' = "fetch_sleep"
                  /\ lastId' = RetryCursor(lastId)
                  /\ UNCHANGED <<exitCode, endedBy>>
             ELSE Crash("fatal") /\ UNCHANGED lastId
    /\ UNCHANGED <<variant, run, source, dest0, row, record, dest, counters, pageVars, retryVars,
                   existFailed, upsertCalls, cursorWrites, timesProcessed>>

\* part_000: sleep(2000) is over; continue re-issues the page request
SleepDone ==
    /\ pc \in {"fetch_sleep", "exists_sleep"}
    /\ pc' = "fetch"
    /\ lastMessage' = "none"
    /\ UNCHANGED <<variant, run, source, dest0, row, record, dest, lastId, counters, pageVars,
                   retryVars, exitCode, endedBy, callCounts, cursorWrites,
                   timesProcessed>>


\* Lines 140-148 of migrate_records.js, 232-244 of part_000: the write of the
\* batch is over with `result`; count it, advance the cursor, next iteration.
FinishBatch(result) ==
    /\ retryResult' = result
    /\ totalErrors' = ErrorsAfterWrite(result, totalErrors)
    /\ totalUpserted' = UpsertedAfterWrite(result, totalUpserted, Len(newRecords))
    /\ totalProcessed' = totalProcessed + Len(rows)
    /\ lastId' = NextCursor(rows)
    /\ cursorWrites' = cursorWrites + 1
    /\ timesProcessed' = CountProcessed(rows)
    /\ dest' = IF result = "success" THEN Upsert(dest, newRecords) ELSE dest
    /\ pc' = "fetch"

\* ----------------------------------------------- migrate_records.js: upsert
UpsertOverwriteReturns ==
    /\ pc = "upsert"
    /\ variant = "overwrite"
    /\ upsertCalls' = upsertCalls + 1
    /\ \E ok \in BOOLEAN : FinishBatch(IF ok THEN "success" ELSE "failure")
    /\ UNCHANGED <<runVars, rows, newRecords, abandoned, attempt, sleeps, exitCode,
                   endedBy, fetchCalls, fetchFails, existFailed>>

\* ------------------------------------------------ part_000: existence query
\* the query returns a result (data, or an error inside the result)
ExistsReturns ==
    /\ pc = "exists"
    /\ \E hasData \in BOOLEAN :
          LET fresh == NewRecords(rows, ExistingIds(hasData, rows)) IN
          /\ existFailed' = (existFailed \/ ~hasData)
          /\ newRecords' = fresh
          /\ IF Len(fresh) = 0
             THEN \* all records already exist, skipping batch
                  /\ totalProcessed' = totalProcessed + Len(rows)
                  /\ lastId' = NextCursor(rows)
                  /\ cursorWrites' = cursorWrites + 1
                  /\ timesProcessed' = CountProcessed(rows)
                  /\ pc' = "fetch"
                  /\ UNCHANGED retryVars
             ELSE \* upsertWithRetry(newRecords): first attempt is sent
                  /\ attempt' = 1
                  /\ sleeps' = 0
                  /\ retryResult' = "none"
                  /\ pc' = "upsert"
                  /\ UNCHANGED <<totalProcessed, lastId, cursorWrites, timesProcessed>>
    /\ UNCHANGED <<runVars, dest, totalUpserted, totalErrors, rows, abandoned, exitCode,
                   endedBy, fetchCalls, fetchFails, upsertCalls>>

\* the query throws: transient ? sleep(2000), continue : process.exit(1)
ExistsThrows ==
    /\ pc = "exists"
    /\ existFailed' = TRUE
    /\ \E message \in ErrorMessages :
          /\ lastMessage' = message
          /\ IF IsTransient(message)
             THEN pc' = "exists_sleep" /\ abandoned' = TRUE /\ UNCHANGED <<exitCode, endedBy>>
             ELSE Crash("fatal") /\ UNCHANGED abandoned
    /\ UNCHANGED <<variant, run, source, dest0, row, record, dest, lastId, counters, rows, newRecords, retryVars,
                   fetchCalls, fetchFails, upsertCalls, cursorWrites, timesProcessed>>

\* ------------------------------------------------ part_000: upsertWithRetry
\* an attempt returns or throws; on the last pass the result goes back to main
UpsertAttempt ==
    /\ pc = "upsert"
    /\ variant = "prefilter"
    /\ upsertCalls' = upsertCalls + 1
    /\ \E outcome \in {"ok", "error", "throw"} :
          LET step == RetryStep(attempt, outcome) IN
          IF step = "sleep"
          THEN /\ pc' = "retry_sleep"
               /\ sleeps' = sleeps + 1
               /\ UNCHANGED <<dest, lastId, counters, retryResult, cursorWrites,
                              timesProcessed, attempt>>
          ELSE /\ FinishBatch(step)
               /\ UNCHANGED <<attempt, sleeps>>
    /\ UNCHANGED <<runVars, rows, newRecords, abandoned, exitCode, endedBy,
                   fetchCalls, fetchFails, existFailed>>

\* sleep(RETRY_DELAY) is over: attempt++ and, while attempt <= maxRetries, the
\* next attempt is sent.  Falling out of the for loop returns undefined and
\* main() dies on retryResult.error (main().catch: process.exit(1)).
RetrySleepDone ==
    /\ pc = "retry_sleep"
    /\ attempt' = attempt + 1
    /\ IF attempt' <= MAX_RETRIES
       THEN /\ pc' = "upsert"
            /\ UNCHANGED <<retryResult, exitCode, endedBy>>
       ELSE /\ retryResult' = "undefined"
            /\ Crash("fatal")
    /\ UNCHANGED <<runVars, dest, lastId, counters, pageVars, sleeps, callCounts,
                   cursorWrites, timesProcessed>>

\* ---------------------------------------------------------------- summary
\* after the loop: summary, final destination count (logged), exit code
Exit ==
    /\ pc = "summary"
    /\ pc' = "exited"
    /\ exitCode' = ExitCodeOf(totalErrors)
    /\ UNCHANGED <<runVars, dest, lastId, counters, pageVars, retryVars, endedBy,
                   callCounts, cursorWrites, timesProcessed>>

\* The program is started again over the unchanged source after a run that
\* ended with exit code 0: main() starts from its initial state, the
\* destination table is what the first run left.
Rerun ==
    /\ pc = "exited"
    /\ exitCode = 0
    /\ run = 1
    /\ run' = 2
    /\ dest0' = dest
    /\ pc' = "count"
    /\ lastId' = 0
    /\ totalProcessed' = 0
    /\ totalUpserted' = 0
    /\ totalErrors' = 0
    /\ rows' = <<>>
    /\ newRecords' = <<>>
    /\ attempt' = 0
    /\ sleeps' = 0
    /\ retryResult' = "none"
    /\ exitCode' = -1
    /\ endedBy' = "running"
    /\ fetchCalls' = 0
    /\ fetchFails' = 0
    /\ existFailed' = FALSE
    /\ upsertCalls' = 0
    /\ abandoned' = FALSE
    /\ cursorWrites' = 0
    /\ timesProcessed' = [id \in Ids |-> 0]
    /\ lastMessage' = "none"
    /\ UNCHANGED <<variant, source, dest, row, record>>

Next ==
    \/ CountOk
    \/ CountError
    \/ FetchEmpty
    \/ FetchPageOverwrite
    \/ FetchErrorSkip
    \/ FetchPagePrefilter
    \/ FetchErrorRetry
    \/ SleepDone
    \/ UpsertOverwriteReturns
    \/ ExistsReturns
    \/ ExistsThrows
    \/ UpsertAttempt
    \/ RetrySleepDone
    \/ Exit
    \/ Rerun

Spec == Init /\ [][Next]_vars

\* Every datastore call and every sleep eventually returns.
FairSpec == Spec /\ WF_vars(Next)

TypeOK ==
    /\ variant \in Variants
    /\ run \in {1, 2}
    /\ source \subseteq Ids
    /\ pc \in {"count", "fetch", "fetch_sleep", "exists", "exists_sleep", "upsert",
               "retry_sleep", "summary", "exited"}
    /\ lastId \in Nat
    /\ retryResult \in {"none", "success", "failure", "undefined"}
    /\ exitCode \in {-1, 0, 1}
    /\ endedBy \in {"running", "empty", "threshold", "fatal", "count_error"}
    /\ existFailed \in BOOLEAN
    /\ lastMessage \in ErrorMessages \cup {"none"}
    /\ abandoned \in BOOLEAN


\* ------------------------------------------- migrate_records.js on its own
OverwriteInit == Init /\ variant = "overwrite"

OverwriteNext ==
    \/ CountOk
    \/ CountError
    \/ FetchEmpty
    \/ FetchPageOverwrite
    \/ FetchErrorSkip
    \/ UpsertOverwriteReturns
    \/ Exit

\* Every datastore call of migrate_records.js eventually returns.
OverwriteFairSpec == OverwriteInit /\ [][OverwriteNext]_vars /\ WF_vars(OverwriteNext)

\* ============================================================== properties
InLoop == pc \in {"fetch", "fetch_sleep", "exists", "exists_sleep", "upsert", "retry_sleep"}
InBatch == pc \in {"exists", "upsert", "retry_sleep"}
\* this step is a page request that returned a non-empty page
PageFetched == pc = "fetch" /\ pc' \in {"upsert", "exists"}
\* this step executes an assignment to lastId
CursorAssigned == cursorWrites' > cursorWrites
Ceil(n, b) == (n + b - 1) \div b

\* C1 (as stated): every assignment to lastId strictly increases it, and the
\* minimum id of each fetched page is greater than the maximum id of the page
\* fetched before it.
C1_Original ==
    [][ /\ CursorAssigned => lastId' > lastId
        /\ (PageFetched /\ rows # <<>>) => rows'[1] > Last(rows) ]_vars

\* C1 (amended): every assignment to lastId strictly increases it, and the
\* minimum id of each fetched page is greater than the maximum id of the page
\* fetched before it, unless that page was given up by a transient
\* existence-check error of part_000, in which case the same page is fetched again.
C1_CursorMonotone ==
    [][ /\ CursorAssigned => lastId' > lastId
        /\ (PageFetched /\ rows # <<>>) =>
              \/ rows'[1] > Last(rows)
              \/ variant = "prefilter" /\ abandoned /\ rows' = rows ]_vars

\* a later page has been fetched after the cursor moved
C1_Witness ==
    /\ InBatch
    /\ cursorWrites >= 1
    /\ fetchCalls >= 2
    /\ rows[1] > 1

\* the page is fetched a second time after a transient existence-check error
C1_RefetchWitness ==
    /\ variant = "prefilter"
    /\ pc = "exists"
    /\ existFailed
    /\ fetchFails = 0
    /\ totalProcessed = 0
    /\ fetchCalls = 2


\* The Batch Fetcher's contract: up to BATCH_SIZE source ids greater than the
\* cursor, ascending.
ContractPage(cursor) == Limit(Ascending({id \in source : id > cursor}), BATCH_SIZE)

\* C2: the page of every fetch issued with cursor lastId is the contract's page
\* for lastId: at most BATCH_SIZE source records, all with id > lastId,
\* ascending; also for lastId = 0, and the fetch that ends the loop found no
\* record with id > lastId.
C2_FetchContract ==
    /\ InBatch =>
          /\ rows = ContractPage(lastId)
          /\ Len(rows) <= BATCH_SIZE
          /\ \A i \in 1..Len(rows) : rows[i] > lastId /\ rows[i] \in source
          /\ \A i \in 1..(Len(rows) - 1) : rows[i] < rows[i + 1]
    /\ endedBy = "empty" => ContractPage(lastId) = <<>>

\* part_000 has fetched a full first page with the unfiltered request of lastId = 0
C2_Witness ==
    /\ variant = "prefilter"
    /\ pc = "exists"
    /\ lastId = 0
    /\ Len(rows) = BATCH_SIZE

\* C3: upsertWithRetry makes at most MAX_RETRIES attempts, returns success
\* right after the first successful attempt, returns a failure result (never
\* undefined, never a throw) only after MAX_RETRIES failed attempts, and has
\* slept exactly once between consecutive attempts.
C3_RetryContract ==
    variant = "prefilter" =>
        /\ attempt \in 0..MAX_RETRIES
        /\ retryResult \in {"none", "success", "failure"}
        /\ pc = "upsert" =>
              retryResult = "none" /\ attempt \in 1..MAX_RETRIES /\ sleeps = attempt - 1
        /\ pc = "retry_sleep" =>
              retryResult = "none" /\ attempt \in 1..(MAX_RETRIES - 1) /\ sleeps = attempt
        /\ retryResult = "success" =>
              attempt \in 1..MAX_RETRIES /\ sleeps = attempt - 1
        /\ retryResult = "failure" =>
              attempt = MAX_RETRIES /\ sleeps = MAX_RETRIES - 1

\* upsertWithRetry has returned a failure after its third attempt
C3_Witness ==
    /\ variant = "prefilter"
    /\ retryResult = "failure"
    /\ attempt = 3
    /\ upsertCalls = 3

\* this step ends the write of the current batch with a failure
WriteFails == retryResult # "failure" /\ retryResult' = "failure"

\* C4: when the write of a batch fails for good, totalErrors grows by one,
\* totalUpserted stays, totalProcessed grows by the page size, lastId becomes
\* the last id of the page and the loop goes on to the next fetch.
C4_WriteFailureContinues ==
    [][ WriteFails =>
          /\ totalErrors' = totalErrors + 1
          /\ totalUpserted' = totalUpserted
          /\ totalProcessed' = totalProcessed + Len(rows)
          /\ lastId' = Last(rows)
          /\ dest' = dest
          /\ pc' = "fetch"
          /\ exitCode' = -1 ]_vars

\* a batch was written successfully after the write of an earlier batch failed
C4_Witness ==
    /\ retryResult = "success"
    /\ totalErrors >= 1
    /\ fetchFails = 0
    /\ totalUpserted > 0
    /\ totalProcessed > totalUpserted

\* C5: in part_000 a transient fetch error changes neither lastId, the
\* counters nor the destination and the same request is issued again; the
\* cursor never passes a record that was not in a processed page, and when the
\* run ends on an empty page every source record was in exactly one.
C5_RetryInPlace ==
    /\ [](variant = "prefilter" =>
            /\ \A id \in source :
                  timesProcessed[id] = IF id <= lastId THEN 1 ELSE 0
            /\ endedBy = "empty" => \A id \in source : timesProcessed[id] = 1)
    /\ [][ /\ (pc = "fetch" /\ pc' = "fetch_sleep") =>
                 UNCHANGED <<lastId, counters, dest, rows>>
           /\ pc = "fetch_sleep" => (pc' = "fetch" /\ UNCHANGED <<lastId, counters, dest>>)
         ]_vars

\* the run ended on an empty page after transient fetch errors, all rows processed
C5_Witness ==
    /\ variant = "prefilter"
    /\ endedBy = "empty"
    /\ fetchFails >= 2
    /\ Cardinality(source) = MaxId
    /\ totalProcessed = MaxId

\* C6: in migrate_records.js, when the first 11 fetches all fail the loop is
\* left at the 11th, no further fetch and no upsert is issued, and the exit
\* code is not zero.
C6_ElevenFailures ==
    (variant = "overwrite" /\ fetchFails = fetchCalls /\ fetchCalls >= 11) =>
        /\ fetchCalls = 11
        /\ ~InLoop
        /\ endedBy = "threshold"
        /\ upsertCalls = 0
        /\ pc = "exited" => exitCode = 1

\* the process has exited after 11 failed fetches
C6_Witness ==
    /\ variant = "overwrite"
    /\ fetchCalls = 11
    /\ fetchFails = 11
    /\ pc = "exited"
    /\ exitCode = 1

\* C7 (as stated): migrate_records.js leaves the loop early only when more
\* than 10 fetches of the run have failed.
C7_Original ==
    (variant = "overwrite" /\ endedBy = "threshold") => fetchFails > 10

\* C8: in migrate_records.js the loop eventually exits, by an empty page or by
\* the error threshold, whatever the calls return.
C8_Terminates == <>(~InLoop /\ pc # "count")

\* the loop has been left by an empty page after skipped and failed batches
C8_Witness ==
    /\ variant = "overwrite"
    /\ pc = "summary"
    /\ endedBy = "empty"
    /\ fetchFails >= 1
    /\ totalProcessed > 0

\* C9: while no fetch and no existence query has failed, the loop issues
\* exactly ceil(N/B) + 1 fetches, the last one returning the empty page,
\* whatever the upserts return.
C9_FetchCount ==
    (fetchFails = 0 /\ ~existFailed) =>
        LET pages == Ceil(Cardinality(source), BATCH_SIZE) IN
        /\ InLoop => fetchCalls <= pages
        /\ endedBy \in {"running", "empty", "count_error"}
        /\ endedBy = "empty" => fetchCalls = pages + 1
        /\ InBatch => fetchCalls = Ceil(totalProcessed + Len(rows), BATCH_SIZE)

\* a table of exactly one full page: two fetches, with a failed write
C9_Witness ==
    /\ endedBy = "empty"
    /\ fetchFails = 0
    /\ ~existFailed
    /\ Cardinality(source) = BATCH_SIZE
    /\ fetchCalls = 2
    /\ totalErrors = 1

\* C10 (as stated): part_000 never hands to upsert a record whose id is in
\* the destination, so every row that was there before the run is unchanged.
C10_Original ==
    variant = "prefilter" =>
        /\ pc \in {"upsert", "retry_sleep"} =>
              \A id \in Range(newRecords) : ~dest[id].present
        /\ \A id \in Ids : dest0[id].present => dest[id] = dest0[id]


\* C11 (as stated): a second run of part_000 after a first run that ended
\* with totalErrors = 0 issues no upsert; it ends with totalUpserted = 0 and
\* totalProcessed = N and leaves the destination as the first run left it.
C11_Original ==
    (variant = "prefilter" /\ run = 2) =>
        /\ upsertCalls = 0
        /\ totalUpserted = 0
        /\ dest = dest0
        /\ endedBy = "empty" => totalProcessed = Cardinality(source)

\* the second run of migrate_records.js has gone through without a failure
CleanSecondRun ==
    /\ variant = "overwrite"
    /\ run = 2
    /\ pc = "exited"
    /\ exitCode = 0

\* C12: for migrate_records.js and runs without fetch or upsert failure, the
\* destination after the second run is the destination after the first, and
\* after each run every row of the source is there with opensearch_sync = false.
C12_OverwriteIdempotent ==
    /\ (variant = "overwrite" /\ pc = "exited" /\ exitCode = 0) =>
          \A id \in source : dest[id].present /\ ~dest[id].opensearch_sync
    /\ CleanSecondRun =>
          /\ dest = dest0
          /\ totalUpserted = Cardinality(source)
          /\ \A id \in Ids \ source : dest[id] \in {NoRow, OldRow}

\* two clean runs over a table of several pages, one row of which was in the
\* destination before the first run
C12_Witness ==
    /\ CleanSecondRun
    /\ Cardinality(source) = MaxId
    /\ upsertCalls >= 2

\* this step is a successful write of the current batch
WriteSucceeds == retryResult = "none" /\ retryResult' = "success"

\* C13: the records handed to upsert carry the ids of fetched source rows
\* and opensearch_sync = false, and a successful write replaces the row of
\* each of these ids: in migrate_records.js a row that had opensearch_sync =
\* true has opensearch_sync = false afterwards.
C13_ResetOnWrite ==
    /\ [](pc \in {"upsert", "retry_sleep"} =>
            /\ Range(newRecords) \subseteq Range(rows)
            /\ Range(newRecords) \subseteq source
            /\ variant = "overwrite" => newRecords = rows)
    /\ [][ WriteSucceeds =>
             /\ \A id \in Range(newRecords) :
                   dest'[id].present /\ ~dest'[id].opensearch_sync
             /\ \A id \in Ids \ Range(newRecords) : dest'[id] = dest[id]
             /\ variant = "overwrite" =>
                   \A id \in Range(rows) : ~dest'[id].opensearch_sync ]_vars

\* migrate_records.js has rewritten a row that was in the destination with
\* opensearch_sync = true
C13_Witness ==
    /\ variant = "overwrite"
    /\ retryResult = "success"
    /\ \E id \in Range(rows) :
          /\ dest0[id].present /\ dest0[id].opensearch_sync
          /\ dest[id].present /\ ~dest[id].opensearch_sync


\* this step is a failed fetch of migrate_records.js (the page is skipped)
FetchSkipped == variant = "overwrite" /\ fetchFails' > fetchFails

\* C14: once a batch had an unrecovered error (a skipped fetch failure, a
\* write that failed for good) totalErrors is positive to the end of the run,
\* and a run that reaches its summary with totalErrors > 0 exits with code 1;
\* exit code 0 only comes with totalErrors = 0.
C14_ExitCode ==
    /\ [](pc = "exited" =>
            /\ exitCode \in {0, 1}
            /\ exitCode = 0 <=> (totalErrors = 0 /\ endedBy = "empty"))
    /\ [][ /\ (WriteFails \/ FetchSkipped) => totalErrors' >= 1
           /\ run' = run => totalErrors' >= totalErrors ]_vars

\* the loop ran to the empty page and wrote a batch, and the exit code is 1
C14_Witness ==
    /\ pc = "exited"
    /\ endedBy = "empty"
    /\ exitCode = 1
    /\ totalUpserted > 0
    /\ totalErrors = 1

\* C16: when the initial source count returns an error the process exits
\* with code 1 before any fetch, existence query or upsert: the destination
\* and the cursor are as at the start.
C16_CountErrorFatal ==
    endedBy = "count_error" =>
        /\ pc = "exited"
        /\ exitCode = 1
        /\ fetchCalls = 0
        /\ upsertCalls = 0
        /\ ~existFailed
        /\ rows = <<>>
        /\ dest = dest0
        /\ lastId = 0
        /\ totalProcessed = 0

\* the count failed over a non-empty source and a non-empty destination
C16_Witness ==
    /\ endedBy = "count_error"
    /\ run = 1
    /\ source # {}
    /\ \E id \in Ids : dest[id].present

\* source ids the cursor has passed without their page being processed
Skipped == {id \in source : id <= lastId /\ timesProcessed[id] = 0}

\* C18: a failed fetch of migrate_records.js adds BATCH_SIZE to lastId and 1
\* to totalErrors and leaves totalProcessed, totalUpserted and the
\* destination; the source ids in (lastId, lastId + BATCH_SIZE] are passed by
\* the cursor, are in no page fetched later and are never written.
C18_SkipAndAdvance ==
    /\ [](variant = "overwrite" =>
            \A id \in Skipped :
               /\ dest[id] = dest0[id]
               /\ InBatch => id \notin Range(rows))
    /\ [][ /\ FetchSkipped =>
                /\ lastId' = lastId + BATCH_SIZE
                /\ totalErrors' = totalErrors + 1
                /\ UNCHANGED <<totalProcessed, totalUpserted, dest>>
                /\ \A id \in source :
                      (lastId < id /\ id <= lastId + BATCH_SIZE) => id \in Skipped'
           /\ (variant = "overwrite" /\ run' = run) => Skipped \subseteq Skipped'
         ]_vars

\* a run of migrate_records.js ended on the empty page with a skipped source
\* row missing in the destination and a later row migrated
C18_Witness ==
    /\ variant = "overwrite"
    /\ endedBy = "empty"
    /\ \E id \in Skipped : ~dest[id].present
    /\ totalUpserted > 0

\* C19: exit code 0 implies that every source id is in the destination.
C19_CompleteOnSuccess ==
    exitCode = 0 => \A id \in source : dest[id].present

\* part_000 exits 0 after transient errors, all rows of a full table inserted
C19_Witness ==
    /\ variant = "prefilter"
    /\ run = 1
    /\ exitCode = 0
    /\ fetchFails > 0
    /\ Cardinality(source) = MaxId
    /\ totalUpserted = MaxId

\* C20: 0 <= totalUpserted <= totalProcessed <= N; totalProcessed is the
\* number of rows of the pages whose processing completed, each source row
\* counted at most once; totalUpserted grows only by the records of a batch
\* whose write succeeded.
C20_Counters ==
    /\ [](/\ 0 <= totalUpserted
          /\ totalUpserted <= totalProcessed
          /\ totalProcessed <= Cardinality(source)
          /\ \A id \in Ids : timesProcessed[id] <= 1
          /\ totalProcessed = Cardinality({id \in source : timesProcessed[id] = 1}))
    /\ [][ /\ totalUpserted' > totalUpserted =>
                (WriteSucceeds /\ totalUpserted' = totalUpserted + Len(newRecords))
           /\ totalProcessed' > totalProcessed =>
                totalProcessed' = totalProcessed + Len(rows) ]_vars

\* part_000 processed a page again after a given-up existence query and a
\* failed write: fewer rows upserted than processed
C20_Witness ==
    /\ variant = "prefilter"
    /\ endedBy = "empty"
    /\ existFailed
    /\ totalErrors >= 1
    /\ totalUpserted >= 1
    /\ totalUpserted < totalProcessed
    /\ totalProcessed = Cardinality(source)


\* this step ends the run other than by the empty page
EndsEarly == endedBy = "running" /\ endedBy' \notin {"running", "empty"}

RECURSIVE TextsUpTo(_)
TextsUpTo(n) ==
    IF n = 0 THEN {<<>>}
    ELSE TextsUpTo(n - 1) \cup {Append(t, c) : t \in {u \in TextsUpTo(n - 1) : Len(u) = n - 1}, c \in Chars}

\* the values a numeric-as-text field can hold: absent, or a text
FieldValues == {Null} \cup {Str(t) : t \in TextsUpTo(MaxTextLen)}

\* a source row with one of the integer fields set, the main loop not started
TransformStart ==
    /\ variant \in Variants
    /\ run = 1
    /\ source = {}
    /\ dest = [id \in Ids |-> NoRow]
    /\ dest0 = dest
    /\ pc = "transform"
    /\ lastId = 0
    /\ totalProcessed = 0
    /\ totalUpserted = 0
    /\ totalErrors = 0
    /\ rows = <<>>
    /\ newRecords = <<>>
    /\ attempt = 0
    /\ sleeps = 0
    /\ retryResult = "none"
    /\ exitCode = -1
    /\ endedBy = "running"
    /\ fetchCalls = 0
    /\ fetchFails = 0
    /\ existFailed = FALSE
    /\ upsertCalls = 0
    /\ abandoned = FALSE
    /\ cursorWrites = 0
    /\ timesProcessed = [id \in Ids |-> 0]
    /\ lastMessage = "none"
    /\ record = NoRecord
    /\ \E f \in IntFields, v \in FieldValues :
          row = [NoSourceRow EXCEPT !.id = 1, ![f] = v]

\* rows.map(transformRow), for one row
TransformRow ==
    /\ pc = "transform"
    /\ record' = transformRow(row)
    /\ pc' = "transformed"
    /\ UNCHANGED <<variant, run, source, dest, dest0, lastId, counters, pageVars,
                   retryVars, exitCode, endedBy, callCounts, cursorWrites,
                   timesProcessed, lastMessage, row>>

TransformSpec == TransformStart /\ [][TransformRow]_vars

\* the text is an optional '-' and digits, nothing else
IsIntegerText(t) ==
    /\ Len(t) > 0
    /\ LET d == IF t[1] = "-" THEN Tail(t) ELSE t
       IN  Len(d) > 0 /\ \A i \in 1..Len(d) : d[i] \in Digits
IntegerOf(t) == IF t[1] = "-" THEN 0 - Decimal(Tail(t)) ELSE Decimal(t)

\* C17 (as stated): each of ad_id, ad_risk_level, request_id comes out as
\* the integer its text denotes whenever the text is an integer (zero
\* included), as null exactly when the value is absent, empty or does not
\* parse, and never as NaN or a string.
C17_Original ==
    pc = "transformed" =>
        \A f \in IntFields :
            /\ record[f].kind \in {"number", "null"}
            /\ (row[f].kind = "string" /\ IsIntegerText(row[f].chars)) =>
                  record[f] = Num(IntegerOf(row[f].chars))
            /\ record[f] = Null <=>
                  (~Truthy(row[f]) \/ ParseInt(row[f].chars) = NaN)

====
